---- MODULE Spec2Model ----
(***************************************************************************)
(* The two transfer orchestrators of starkgate-frontend,                   *)
(*   useTransferToL1          (initiation of a withdrawal on L2) and       *)
(*   useCompleteTransferToL1  (completion of the withdrawal on L1),        *)
(* as one state machine.  JavaScript runs each synchronous block to        *)
(* completion, so every action below is one such block: the body of the    *)
(* async function up to its next await, the continuation after an await,   *)
(* or one callback invocation.  Every call a block makes to a collaborator *)
(* (handleProgress, handleData, handleError, track*, addListener,          *)
(* removeListener, initiateWithdraw, withdraw, waitForTransaction) is      *)
(* appended, in program order, to the history variable calls.              *)
(***************************************************************************)
EXTENDS Integers, Sequences, FiniteSets, TLC

VARIABLES
    variant,    \* which hook's callback is running: "none" before the run
    pc,         \* position of the async function of the run
    ctx,        \* the values the run's closures captured, and how its lookups answer
    l2hash,     \* useTransferToL1: the hash the submit call resolved with
    emitter,    \* state of withdraw's signing callback: none / armed / fired
    listener,   \* the callbacks registered with the withdrawal listener
    events,     \* number of withdrawal events the chain has delivered
    calls,      \* history: every collaborator call, callback entry and rejection, in order
    conv        \* an amount conversion in progress: its input and the Number so far

vars == <<variant, pc, ctx, l2hash, emitter, listener, events, calls, conv>>

-----------------------------------------------------------------------------
(* Bounds and input domains *)

MaxEvents == 2

Hashes == {"0xabc", "0xdef"}
Errors == {"insufficient funds", "user rejected"}
Amounts == {5}
L1Accounts == {"0xL1", "noAccount"}
L2Accounts == {"0xL2", "noAccount"}

Undefined == [undefined |-> TRUE]
NoHash == "none"
NoConversion == [stage |-> "none"]

\* selectedToken of useSelectedToken()
EthToken == [decimals |-> 18, bridgeAddress |-> "0xbridge", name |-> "Ethereum", symbol |-> "ETH"]

\* the transfer object completed by useCompleteTransferToL1
Transfers ==
    { [type |-> "TRANSFER_TO_L1", sender |-> "0xL2", recipient |-> "0xL1",
       name |-> "Ethereum", symbol |-> "ETH", amount |-> a, l2hash |-> h]
      : a \in Amounts, h \in Hashes }

-----------------------------------------------------------------------------
(* enums and pure helpers *)

TransferToL1Steps == <<"CONFIRM_TX", "INITIATE_WITHDRAW">>
CompleteTransferToL1Steps == <<"CONFIRM_TX", "WITHDRAW">>

\* steps.indexOf(step)
stepOf(step, steps) == (CHOOSE i \in 1..Len(steps) : steps[i] = step) - 1

\* progressOptions.*: descriptors handed to handleProgress / handleError
waitForConfirm(network, step) == [type |-> "waitForConfirm", network |-> network, activeStep |-> step]
initiateWithdrawProgress(amount, symbol, step) ==
    [type |-> "initiateWithdraw", amount |-> amount, symbol |-> symbol, activeStep |-> step]
withdrawProgress(amount, symbol, step) ==
    [type |-> "withdraw", amount |-> amount, symbol |-> symbol, activeStep |-> step]
errorDescriptor(type, ex) == [type |-> type, cause |-> ex]

Call(op, arg) == [op |-> op, arg |-> arg]

-----------------------------------------------------------------------------
Init ==
    /\ variant = "none"
    /\ pc = "idle"
    /\ ctx = Undefined
    /\ l2hash = NoHash
    /\ emitter = "none"
    /\ listener = {}
    /\ events = 0
    /\ calls = <<>>
    /\ conv = NoConversion

-----------------------------------------------------------------------------
(* useTransferToL1 *)

\* the catch block with the trackError call forgotten
TransferToL1Catch_NoTrackError(ex) ==
    << Call("handleError", errorDescriptor("TRANSACTION_ERROR", ex)) >>

\* the catch block reporting the error twice
TransferToL1Catch_Twice(ex) ==
    << Call("trackError", ex),
       Call("handleError", errorDescriptor("TRANSACTION_ERROR", ex)),
       Call("handleError", errorDescriptor("TRANSACTION_ERROR", ex)) >>

\* the catch block of useTransferToL1
TransferToL1Catch(ex) ==
    << Call("trackError", ex),
       Call("handleError", errorDescriptor("TRANSACTION_ERROR", ex)) >>

\* sendInitiateWithdraw up to the contract lookup
sendInitiateWithdrawHead(c) ==
    << Call("trackInitiated",
            [from_address |-> c.l2Account, to_address |-> c.l1Account,
             amount |-> c.amount, symbol |-> c.selectedToken.symbol]),
       Call("getTokenBridgeContract", c.selectedToken.bridgeAddress) >>

\* The callback is invoked with an amount; the block runs up to the first await.
TransferToL1Start ==
    /\ pc = "idle"
    /\ \E amount \in Amounts, tok \in {EthToken, Undefined}, l1 \in L1Accounts,
          l2 \in L2Accounts, lookup \in {"ok", "throws"}, ex \in Errors :
        LET c == [amount |-> amount, selectedToken |-> tok, l1Account |-> l1,
                  l2Account |-> l2, network |-> "SN_GOERLI", lookup |-> lookup]
        IN  /\ variant' = "TransferToL1"
            /\ ctx' = c
            /\ IF tok = Undefined
               THEN \* the destructuring of selectedToken is outside the try
                    /\ pc' = "rejected"
                    /\ calls' = calls
               ELSE LET head == << Call("handleProgress",
                                        waitForConfirm(c.network,
                                            stepOf("CONFIRM_TX", TransferToL1Steps))) >>
                                   \o sendInitiateWithdrawHead(c)
                    IN  IF lookup = "throws"
                        THEN /\ pc' = "done"
                             /\ calls' = calls \o head \o TransferToL1Catch(ex)
                        ELSE /\ pc' = "awaitInitiateWithdraw"
                             /\ calls' = calls \o head \o
                                  << Call("initiateWithdraw",
                                          [recipient |-> l1, amount |-> amount,
                                           decimals |-> tok.decimals]) >>
    /\ UNCHANGED <<conv, l2hash, emitter, listener, events>>

\* the continuation reporting Success without waiting for the receipt
InitiateWithdrawResolves_NoWait ==
    /\ variant = "TransferToL1"
    /\ pc = "awaitInitiateWithdraw"
    /\ \E h \in Hashes :
        /\ l2hash' = h
        /\ calls' = calls \o
             << Call("handleProgress",
                     initiateWithdrawProgress(ctx.amount, ctx.selectedToken.symbol,
                         stepOf("INITIATE_WITHDRAW", TransferToL1Steps))),
                Call("trackSuccess", h),
                Call("waitForTransaction", [hash |-> h, status |-> "RECEIVED"]) >>
    /\ pc' = "awaitReceipt"
    /\ UNCHANGED <<conv, variant, ctx, emitter, listener, events>>

\* await sendInitiateWithdraw() resolves with {transaction_hash}
InitiateWithdrawResolves ==
    /\ variant = "TransferToL1"
    /\ pc = "awaitInitiateWithdraw"
    /\ \E h \in Hashes :
        /\ l2hash' = h
        /\ calls' = calls \o
             << Call("handleProgress",
                     initiateWithdrawProgress(ctx.amount, ctx.selectedToken.symbol,
                         stepOf("INITIATE_WITHDRAW", TransferToL1Steps))),
                Call("waitForTransaction", [hash |-> h, status |-> "RECEIVED"]) >>
    /\ pc' = "awaitReceipt"
    /\ UNCHANGED <<conv, variant, ctx, emitter, listener, events>>

\* await sendInitiateWithdraw() rejects
InitiateWithdrawRejects ==
    /\ variant = "TransferToL1"
    /\ pc = "awaitInitiateWithdraw"
    /\ \E ex \in Errors :
        calls' = calls \o << Call("initiateWithdrawRejected", ex) >> \o TransferToL1Catch(ex)
    /\ pc' = "done"
    /\ UNCHANGED <<conv, variant, ctx, l2hash, emitter, listener, events>>

\* the success tail with nothing reported
TransferToL1Done_Silent(c, h) == << >>

\* the success tail with sender and recipient exchanged
TransferToL1Done_Swapped(c, h) ==
    << Call("trackSuccess", h),
       Call("handleData",
            [type |-> "TRANSFER_TO_L1", sender |-> c.l1Account, recipient |-> c.l2Account,
             name |-> c.selectedToken.name, symbol |-> c.selectedToken.symbol,
             amount |-> c.amount, l2hash |-> h]) >>

\* the success tail of useTransferToL1
TransferToL1Done(c, h) ==
    << Call("trackSuccess", h),
       Call("handleData",
            [type |-> "TRANSFER_TO_L1", sender |-> c.l2Account, recipient |-> c.l1Account,
             name |-> c.selectedToken.name, symbol |-> c.selectedToken.symbol,
             amount |-> c.amount, l2hash |-> h]) >>

\* await waitForTransaction(l2hash, RECEIVED) resolves
WaitForTransactionResolves ==
    /\ variant = "TransferToL1"
    /\ pc = "awaitReceipt"
    /\ calls' = calls \o TransferToL1Done(ctx, l2hash)
    /\ pc' = "done"
    /\ UNCHANGED <<conv, variant, ctx, l2hash, emitter, listener, events>>

\* await waitForTransaction(l2hash, RECEIVED) rejects
WaitForTransactionRejects ==
    /\ variant = "TransferToL1"
    /\ pc = "awaitReceipt"
    /\ \E ex \in Errors :
        calls' = calls \o << Call("waitForTransactionRejected", ex) >> \o TransferToL1Catch(ex)
    /\ pc' = "done"
    /\ UNCHANGED <<conv, variant, ctx, l2hash, emitter, listener, events>>

-----------------------------------------------------------------------------
(* The withdrawal listener (useWithdrawalListener) *)

\* addListener(cb) registers cb, removeListener() deregisters what is registered
RECURSIVE ListenerAfter(_, _)
ListenerAfter(l, cs) ==
    IF cs = <<>> THEN l
    ELSE LET c == Head(cs)
             l1 == IF c.op = "addListener" THEN l \cup {c.arg}
                   ELSE IF c.op = "removeListener" THEN {}
                   ELSE l
         IN  ListenerAfter(l1, Tail(cs))

\* a synchronous block made the calls cs
Run(cs) ==
    /\ calls' = calls \o cs
    /\ listener' = ListenerAfter(listener, cs)

-----------------------------------------------------------------------------
(* useCompleteTransferToL1 *)

\* onError with the removeListener() call forgotten
onError_NoRemoveListener(error) ==
    << Call("trackError", error),
       Call("handleError", errorDescriptor("TRANSACTION_ERROR", error)) >>

\* onError recording a rejected signing request through trackReject
onError_TrackReject(error) ==
    << Call("removeListener", "void"),
       IF error = "user rejected" THEN Call("trackReject", error)
                                  ELSE Call("trackError", error),
       Call("handleError", errorDescriptor("TRANSACTION_ERROR", error)) >>

\* onError = error => {removeListener(); trackError(error); handleError(...)}
onError(error) ==
    << Call("removeListener", "void"),
       Call("trackError", error),
       Call("handleError", errorDescriptor("TRANSACTION_ERROR", error)) >>

\* onTransactionHash reporting Success itself once the transaction is signed
onTransactionHash_ReportsSuccess(c, error, transactionHash) ==
    IF error # "null"
    THEN onError(error)
    ELSE << Call("handleProgress",
                 withdrawProgress(c.transfer.amount, c.transfer.symbol,
                     stepOf("WITHDRAW", CompleteTransferToL1Steps))),
            Call("trackSuccess", transactionHash),
            Call("handleData", c.transfer) >>

\* onTransactionHash = (error, transactionHash) => ...
onTransactionHash(c, error, transactionHash) ==
    IF error # "null"
    THEN onError(error)
    ELSE << Call("handleProgress",
                 withdrawProgress(c.transfer.amount, c.transfer.symbol,
                     stepOf("WITHDRAW", CompleteTransferToL1Steps))) >>

\* the spread replaced by a record that keeps the hashes only
WithL1Hash_HashesOnly(transfer, l1hash) ==
    [l2hash |-> transfer.l2hash, l1hash |-> l1hash]

\* {...transfer, l1hash}
WithL1Hash(transfer, l1hash) ==
    [k \in DOMAIN transfer \cup {"l1hash"} |->
        IF k = "l1hash" THEN l1hash ELSE transfer[k]]

\* onWithdrawal = (error, event) => ...
onWithdrawal(c, error, event) ==
    IF error # "null"
    THEN onError(error)
    ELSE << Call("trackSuccess", event.transactionHash),
            Call("handleData", WithL1Hash(c.transfer, event.transactionHash)) >>

\* sendWithdrawal with trackInitiated called after the token lookup, twice
sendWithdrawalHead_TrackTwice(c) ==
    << Call("trackInitiated",
            [to_address |-> c.l1Account, l2hash |-> c.transfer.l2hash,
             amount |-> c.transfer.amount, symbol |-> c.transfer.symbol]),
       Call("getL1Token", c.transfer.symbol),
       Call("trackInitiated",
            [to_address |-> c.l1Account, l2hash |-> c.transfer.l2hash,
             amount |-> c.transfer.amount, symbol |-> c.transfer.symbol]) >>

\* sendWithdrawal up to the token and contract lookups
sendWithdrawalHead(c) ==
    << Call("trackInitiated",
            [to_address |-> c.l1Account, l2hash |-> c.transfer.l2hash,
             amount |-> c.transfer.amount, symbol |-> c.transfer.symbol]),
       Call("getL1Token", c.transfer.symbol) >>

\* the try block with the CONFIRM_TX progress event forgotten
CompleteTransferToL1Head_NoProgress(c) ==
    << Call("addListener", "onWithdrawal") >>

\* the try block with the addListener call forgotten
CompleteTransferToL1Head_NoListener(c) ==
    << Call("handleProgress",
            waitForConfirm(c.network, stepOf("CONFIRM_TX", CompleteTransferToL1Steps))) >>

\* the try block up to the call of sendWithdrawal
CompleteTransferToL1Head(c) ==
    << Call("handleProgress",
            waitForConfirm(c.network, stepOf("CONFIRM_TX", CompleteTransferToL1Steps))),
       Call("addListener", "onWithdrawal") >>

\* The callback is invoked with a transfer; the block runs up to the await.
CompleteTransferToL1Start ==
    /\ pc = "idle"
    /\ \E transfer \in Transfers \cup {Undefined}, l1 \in L1Accounts,
          lookup \in {"ok", "unknownToken", "noContract"}, ex \in Errors :
        LET c == [transfer |-> transfer, l1Account |-> l1, network |-> "goerli",
                  lookup |-> lookup]
        IN  /\ variant' = "CompleteTransferToL1"
            /\ ctx' = c
            /\ IF transfer = Undefined
               THEN \* the destructuring of transfer is outside the try
                    /\ pc' = "rejected"
                    /\ emitter' = emitter
                    /\ Run(<<>>)
               ELSE LET head == CompleteTransferToL1Head(c) \o sendWithdrawalHead(c)
                    IN  CASE lookup = "unknownToken" ->
                               \* getL1Token(symbol) is undefined: destructuring throws
                               /\ pc' = "done"
                               /\ emitter' = emitter
                               /\ Run(head \o onError(ex))
                          [] lookup = "noContract" ->
                               /\ pc' = "done"
                               /\ emitter' = emitter
                               /\ Run(head \o
                                      << Call("getL1TokenBridgeContract", "0xbridge") >>
                                      \o onError(ex))
                          [] lookup = "ok" ->
                               /\ pc' = "awaitWithdraw"
                               /\ emitter' = "armed"
                               /\ Run(head \o
                                      << Call("getL1TokenBridgeContract", "0xbridge"),
                                         Call("withdraw",
                                              [recipient |-> l1,
                                               amount |-> transfer.amount,
                                               emitter |-> "onTransactionHash"]) >>)
    /\ UNCHANGED <<conv, l2hash, events>>

\* withdraw() invokes its emitter once, with (error) or (null, hash), before
\* its promise settles
SigningCallback ==
    /\ variant = "CompleteTransferToL1"
    /\ pc = "awaitWithdraw"
    /\ emitter = "armed"
    /\ \E error \in Errors \cup {"null"}, h \in Hashes :
        /\ emitter' = IF error # "null" THEN "firedError" ELSE "fired"
        /\ Run(<< Call("onTransactionHash", [error |-> error, transactionHash |-> h]) >>
               \o onTransactionHash(ctx, error, h))
    /\ UNCHANGED <<conv, variant, pc, ctx, l2hash, events>>

\* await sendWithdrawal() resolves: the async function returns.  A submit
\* whose emitter reported an error does not resolve.
WithdrawResolves ==
    /\ variant = "CompleteTransferToL1"
    /\ pc = "awaitWithdraw"
    /\ emitter # "firedError"
    /\ pc' = "done"
    /\ UNCHANGED <<conv, variant, ctx, l2hash, emitter, listener, events, calls>>

\* await sendWithdrawal() rejects: catch (ex) {onError(ex)}
WithdrawRejects ==
    /\ variant = "CompleteTransferToL1"
    /\ pc = "awaitWithdraw"
    /\ \E ex \in Errors : Run(<< Call("withdrawRejected", ex) >> \o onError(ex))
    /\ pc' = "done"
    /\ UNCHANGED <<conv, variant, ctx, l2hash, emitter, events>>

\* The chain delivers a withdrawal event (error, event); it reaches
\* onWithdrawal only while that callback is registered.
WithdrawalEvent ==
    /\ events < MaxEvents
    /\ events' = events + 1
    /\ \E error \in Errors \cup {"null"}, h \in Hashes :
        LET event == [transactionHash |-> h]
            seen == << Call("WithdrawalEvent", [error |-> error, event |-> event]) >>
        IN  IF "onWithdrawal" \in listener
            THEN Run(seen \o << Call("onWithdrawal", [error |-> error, event |-> event]) >>
                     \o onWithdrawal(ctx, error, event))
            ELSE Run(seen)
    /\ UNCHANGED <<conv, variant, pc, ctx, l2hash, emitter>>

-----------------------------------------------------------------------------
Next ==
    \/ CompleteTransferToL1Start
    \/ SigningCallback
    \/ WithdrawResolves
    \/ WithdrawRejects
    \/ WithdrawalEvent
    \/ TransferToL1Start
    \/ InitiateWithdrawResolves
    \/ InitiateWithdrawRejects
    \/ WaitForTransactionResolves
    \/ WaitForTransactionRejects

Spec == Init /\ [][Next]_vars

\* Every pending external call settles: the promise of initiateWithdraw, of
\* waitForTransaction and of withdraw.  Nothing obliges the chain to deliver
\* a withdrawal event or withdraw to invoke its emitter.
Fairness ==
    /\ WF_vars(InitiateWithdrawResolves \/ InitiateWithdrawRejects)
    /\ WF_vars(WaitForTransactionResolves \/ WaitForTransactionRejects)
    /\ WF_vars(WithdrawResolves \/ WithdrawRejects)

FairSpec == Init /\ [][Next]_vars /\ Fairness

-----------------------------------------------------------------------------
(* Amount conversion: powerOf, toDecimals, fromDecimals.                     *)
(* The values are JavaScript Numbers, IEEE-754 binary64: an integer          *)
(* significand m of at most MantissaBits bits and an exponent e, the value   *)
(* m * 2^e; * and / round the exact result to the nearest such value, ties   *)
(* to the even significand.  Significands exceed the integers of the model   *)
(* checker, so a natural is a sequence of limbs in base Base, least          *)
(* significant first, without leading zero limbs (0 is the empty sequence).  *)
(* The exponents of the amounts converted here stay far from the binary64    *)
(* exponent limits.                                                          *)

MaxValue == 8

TEN_BASE == 10
DEFAULT_DECIMALS == 18
MantissaBits == 53

LimbBits == 3 * 4
Base == 2 ^ LimbBits

Max(a, b) == IF a >= b THEN a ELSE b

RECURSIVE LimbsOf(_)
LimbsOf(n) == IF n = 0 THEN << >> ELSE << n % Base >> \o LimbsOf(n \div Base)

RECURSIVE Norm(_)
Norm(a) ==
    IF a = << >> THEN a
    ELSE IF a[Len(a)] # 0 THEN a
    ELSE Norm(SubSeq(a, 1, Len(a) - 1))

\* f[1] + ... + f[n]
RECURSIVE SumTo(_, _)
SumTo(f, n) == IF n = 0 THEN 0 ELSE f[n] + SumTo(f, n - 1)

\* the limbs of the natural whose limb i is c[i], a c[i] possibly above Base
RECURSIVE Carry(_, _, _)
Carry(c, i, carry) ==
    IF i > Len(c)
    THEN LimbsOf(carry)
    ELSE LET t == c[i] + carry
         IN  << t % Base >> \o Carry(c, i + 1, t \div Base)

Mul(a, b) ==
    IF a = << >> \/ b = << >> THEN << >>
    ELSE LET raw == [k \in 1..(Len(a) + Len(b)) |->
                       SumTo([i \in 1..Len(a) |->
                                 IF k + 1 - i \in 1..Len(b)
                                 THEN a[i] * b[k + 1 - i] ELSE 0], Len(a))]
         IN  Norm(Carry(raw, 1, 0))

AddOne(a) ==
    IF a = << >> THEN << 1 >> ELSE Norm(Carry([a EXCEPT ![1] = @ + 1], 1, 0))

\* a * 2^k
ShiftLeft(a, k) ==
    Mul(a, [i \in 1..(k \div LimbBits + 1) |->
               IF i = k \div LimbBits + 1 THEN 2 ^ (k % LimbBits) ELSE 0])

\* quotient and remainder of a by a divisor s below Base, from the top limb
RECURSIVE DivSmallFrom(_, _, _, _, _)
DivSmallFrom(a, s, i, q, r) ==
    IF i = 0 THEN [q |-> Norm(q), r |-> r]
    ELSE LET t == r * Base + a[i]
         IN  DivSmallFrom(a, s, i - 1, << t \div s >> \o q, t % s)
DivSmall(a, s) == DivSmallFrom(a, s, Len(a), << >>, 0)

\* a \div 2^k
ShiftRight(a, k) ==
    IF k \div LimbBits >= Len(a) THEN << >>
    ELSE DivSmall(SubSeq(a, k \div LimbBits + 1, Len(a)), 2 ^ (k % LimbBits)).q

\* a \div TEN_BASE^d, and whether the division left a remainder: the
\* quotient by TEN_BASE^d is a succession of quotients by powers of TEN_BASE
\* below Base whose exponents add up to d
RECURSIVE DivTenTo(_, _)
DivTenTo(a, d) ==
    IF d = 0 \/ a = << >> THEN [q |-> a, inexact |-> FALSE]
    ELSE LET step == IF d >= 3 THEN 3 ELSE 1
             one  == DivSmall(a, TEN_BASE ^ step)
         IN  IF one.r # 0
             THEN [q |-> DivTenTo(one.q, d - step).q, inexact |-> TRUE]
             ELSE DivTenTo(one.q, d - step)

\* the number of bits of a # 0, and bit i of a, the lowest being bit 1
BitLen(a) ==
    LimbBits * (Len(a) - 1)
        + (CHOOSE k \in 1..LimbBits : a[Len(a)] \div 2 ^ (k - 1) = 1)
Bit(a, i) ==
    (a[(i - 1) \div LimbBits + 1] \div 2 ^ ((i - 1) % LimbBits)) % 2

\* the Number nearest to n * 2^e (to a value above it by less than 2^e when
\* inexact), ties to even
RoundToNumber(n, e, inexact) ==
    IF n = << >> THEN [m |-> n, e |-> 0]
    ELSE IF BitLen(n) <= MantissaBits THEN [m |-> n, e |-> e]
    ELSE LET drop == BitLen(n) - MantissaBits
             kept == ShiftRight(n, drop)
             half == Bit(n, drop) = 1
             rest == inexact \/ \E i \in 1..(drop - 1) : Bit(n, i) = 1
             up   == half /\ (rest \/ Bit(kept, 1) = 1)
         IN  [m |-> IF up THEN AddOne(kept) ELSE kept, e |-> e + drop]

\* an integer of the model as a Number
NumberOf(n) == RoundToNumber(LimbsOf(n), 0, FALSE)

\* x * y
NumberTimes(x, y) == RoundToNumber(Mul(x.m, y.m), x.e + y.e, FALSE)

\* TEN_BASE^decimals, for decimals up to DEFAULT_DECIMALS: a power that
\* exceeds the integers of the model checker is the product of two that fit
TenTo(decimals) ==
    IF decimals <= 9 THEN LimbsOf(TEN_BASE ^ decimals)
    ELSE Mul(LimbsOf(TEN_BASE ^ 9), LimbsOf(TEN_BASE ^ (decimals - 9)))

\* x / TEN_BASE^decimals: the quotient of the significand, scaled so that it
\* has more than MantissaBits bits, rounded once
NumberOverTenTo(x, decimals) ==
    IF x.m = << >> THEN x
    ELSE LET k  == Max(0, MantissaBits + 1 + BitLen(TenTo(decimals)) - BitLen(x.m))
             qr == DivTenTo(ShiftLeft(x.m, k), decimals)
         IN  RoundToNumber(qr.q, x.e - k, qr.inexact)

\* x == y
NumberEq(x, y) ==
    LET e == IF x.e <= y.e THEN x.e ELSE y.e
    IN  ShiftLeft(x.m, x.e - e) = ShiftLeft(y.m, y.e - e)

\* Math.pow(TEN_BASE, decimals): TEN_BASE^decimals as a Number, exact for
\* the decimals of the model
powerOf(decimals) == RoundToNumber(TenTo(decimals), 0, FALSE)

\* value * powerOf(decimals)
toDecimals(value, decimals) == NumberTimes(value, powerOf(decimals))

\* value / powerOf(decimals), powerOf(decimals) being TEN_BASE^decimals
fromDecimals(value, decimals) == NumberOverTenTo(value, decimals)

\* no run of a hook takes part in a conversion
RunIdle ==
    /\ variant = "none"
    /\ pc = "idle"
    /\ ctx = Undefined
    /\ l2hash = NoHash
    /\ emitter = "none"
    /\ listener = {}
    /\ events = 0
    /\ calls = <<>>

ConvInit ==
    /\ RunIdle
    /\ \E v \in 0..MaxValue, d \in 0..DEFAULT_DECIMALS :
          conv = [stage |-> "input", value |-> v, decimals |-> d, number |-> NumberOf(v)]

\* fromDecimals(v, d)
FromDecimalsStep ==
    /\ conv.stage = "input"
    /\ conv' = [conv EXCEPT !.stage = "fromDecimals",
                            !.number = fromDecimals(conv.number, conv.decimals)]
    /\ UNCHANGED <<variant, pc, ctx, l2hash, emitter, listener, events, calls>>

\* toDecimals(fromDecimals(v, d), d)
ToDecimalsStep ==
    /\ conv.stage = "fromDecimals"
    /\ conv' = [conv EXCEPT !.stage = "toDecimals",
                            !.number = toDecimals(conv.number, conv.decimals)]
    /\ UNCHANGED <<variant, pc, ctx, l2hash, emitter, listener, events, calls>>

ConvNext ==
    \/ FromDecimalsStep
    \/ ToDecimalsStep

ConvSpec == ConvInit /\ [][ConvNext]_vars

-----------------------------------------------------------------------------
(* Reading the history *)

Ops(op) == {i \in DOMAIN calls : calls[i].op = op}
Count(op) == Cardinality(Ops(op))

Completion == variant = "CompleteTransferToL1"
Initiation == variant = "TransferToL1"

\* the terminal outcomes emitted so far
Outcomes == Count("handleData") + Count("handleError")
Terminal == Outcomes > 0

\* the activeStep of every progress event, in order of emission, among the
\* first n entries of the history
StepsUpTo(n) ==
    LET prog == SelectSeq(SubSeq(calls, 1, n), LAMBDA c : c.op = "handleProgress")
    IN  [i \in 1..Len(prog) |-> prog[i].arg.activeStep]
Steps == StepsUpTo(Len(calls))

\* the entries this step appends to the history
Appended == SubSeq(calls', Len(calls) + 1, Len(calls'))
Appends(op) == \E i \in DOMAIN Appended : Appended[i].op = op

\* entries of the signing callback / the listener callback that carry an error
SigningErrors == {i \in Ops("onTransactionHash") : calls[i].arg.error # "null"}
ListenerErrors == {i \in Ops("onWithdrawal") : calls[i].arg.error # "null"}

-----------------------------------------------------------------------------
(* C1: completion variant, at most one terminal outcome (handleData or       *)
(* handleError) is emitted per run, whatever the interleaving of the signing *)
(* callback, the listener callback and the settling of the submit promise;   *)
(* in particular handleError is called once when the signing callback        *)
(* reports an error and the submit promise then rejects.                     *)
C1_AtMostOneOutcome ==
    Completion =>
        /\ Outcomes <= 1
        /\ (SigningErrors # {} /\ Count("withdrawRejected") > 0
                => Count("handleError") = 1)

(* C2: once a run has a terminal outcome, exactly one of trackSuccess and    *)
(* trackError was called, exactly once, and it agrees with the outcome:      *)
(* trackSuccess with handleData, trackError with handleError.                *)
C2_OneTrackingPerOutcome ==
    Terminal =>
        /\ Count("trackSuccess") + Count("trackError") = 1
        /\ Count("trackSuccess") = Count("handleData")
        /\ Count("trackError") = Count("handleError")

(* C3: completion variant, after the signing callback has reported an error, *)
(* a withdrawal success event finds the listener already removed and         *)
(* produces no outcome: no handleData, no trackSuccess, no handleError.      *)
SuccessEventStep ==
    \E i \in DOMAIN Appended :
        Appended[i].op = "WithdrawalEvent" /\ Appended[i].arg.error = "null"

C3_NoOutcomeAfterSigningError ==
    [][ (Completion /\ SigningErrors # {} /\ SuccessEventStep)
            => /\ listener = {}
               /\ ~Appends("onWithdrawal")
               /\ ~Appends("handleData")
               /\ ~Appends("trackSuccess")
               /\ ~Appends("handleError") ]_vars

\* a success event was delivered after the signing callback reported an error
C3_Witness ==
    /\ Completion
    /\ \E i \in SigningErrors, j \in Ops("WithdrawalEvent") :
          i < j /\ calls[j].arg.error = "null"

(* C4: completion variant, when the listener callback delivers an error      *)
(* before the signing callback has run, the listener is removed, a single    *)
(* Failure(TRANSACTION_ERROR) is delivered, and a later successful signing   *)
(* callback emits no WITHDRAW progress event and no further outcome.         *)
\* the listener callback runs with an error and no signing callback ran before
ListenerErrorStep ==
    /\ Ops("onTransactionHash") = {}
    /\ \E i \in DOMAIN Appended :
          Appended[i].op = "onWithdrawal" /\ Appended[i].arg.error # "null"

\* the signing callback runs without error
SigningSuccessStep ==
    \E i \in DOMAIN Appended :
        Appended[i].op = "onTransactionHash" /\ Appended[i].arg.error = "null"

\* a listener error was delivered before any signing callback
ListenerErrorFirst ==
    \E i \in ListenerErrors : \A k \in Ops("onTransactionHash") : i < k

C4_ListenerErrorFirst ==
    [][ /\ ListenerErrorStep =>
              /\ listener' = {}
              /\ Count("handleError")' = Count("handleError") + 1
              /\ \E i \in DOMAIN Appended :
                    /\ Appended[i].op = "handleError"
                    /\ Appended[i].arg.type = "TRANSACTION_ERROR"
        /\ (ListenerErrorFirst /\ SigningSuccessStep) =>
              /\ ~Appends("handleProgress")
              /\ ~Appends("handleData")
              /\ ~Appends("handleError") ]_vars

C6_ListenerRemovedAtTerminal ==
    (Completion /\ Terminal) =>
        /\ Count("removeListener") > 0
        /\ listener = {}

(* C7: terminal states are absorbing: after a terminal outcome the run emits *)
(* no progress event, no outcome, no trackSuccess or trackError, and does    *)
(* not submit the transaction again.                                         *)
C7_TerminalAbsorbing ==
    [][ Terminal =>
            /\ ~Appends("handleProgress")
            /\ ~Appends("handleData")
            /\ ~Appends("handleError")
            /\ ~Appends("trackSuccess")
            /\ ~Appends("trackError")
            /\ ~Appends("withdraw")
            /\ ~Appends("initiateWithdraw") ]_vars

(* C8: every error thrown during a run is caught inside the run, recorded    *)
(* through trackError and handed to handleError with its cause; the promise  *)
(* the run returns never rejects.                                            *)
Rejections ==
    Ops("initiateWithdrawRejected") \cup Ops("waitForTransactionRejected")
        \cup Ops("withdrawRejected")

C8_ErrorsCaught ==
    /\ pc # "rejected"
    /\ \A i \in Rejections :
          /\ i + 3 <= Len(calls)
          /\ \E j \in i + 1 .. i + 3 :
                calls[j].op = "trackError" /\ calls[j].arg = calls[i].arg
          /\ \E j \in i + 1 .. i + 3 :
                /\ calls[j].op = "handleError"
                /\ calls[j].arg = errorDescriptor("TRANSACTION_ERROR", calls[i].arg)

(* C9: with the account absent or the token / bridge contract unresolvable,  *)
(* the run fails with MissingAccount or UnknownToken before any external     *)
(* call: no progress event, no trackInitiated, no submit, no addListener.    *)
InputMissing ==
    \/ Initiation /\ ctx.selectedToken = Undefined
    \/ Completion /\ ctx.transfer = Undefined
LookupThrows == variant # "none" /\ ~InputMissing /\ ctx.lookup # "ok"
AccountAbsent ==
    /\ variant # "none"
    /\ \/ ctx.l1Account = "noAccount"
       \/ Initiation /\ ctx.l2Account = "noAccount"
Submits == Count("initiateWithdraw") + Count("withdraw")

C10_SubmitRejects ==
    \A i \in Ops("initiateWithdrawRejected") :
        /\ pc = "done"
        /\ Count("trackError") = 1
        /\ \A j \in Ops("trackError") : calls[j].arg = calls[i].arg
        /\ Count("handleError") = 1
        /\ \A j \in Ops("handleError") :
              calls[j].arg = errorDescriptor("TRANSACTION_ERROR", calls[i].arg)
        /\ Steps = <<stepOf("CONFIRM_TX", TransferToL1Steps)>>
        /\ Count("waitForTransaction") = 0
        /\ Count("trackSuccess") = 0
        /\ Count("handleData") = 0

\* an initiation run whose submit call rejected
C10_Witness ==
    /\ Initiation
    /\ Ops("initiateWithdrawRejected") # {}

(* C11: completion variant, Success (trackSuccess and handleData) is         *)
(* reported only by the listener callback onWithdrawal called without an     *)
(* error; a successful signing callback and a resolved submit promise        *)
(* report no Success.                                                        *)
C11_SuccessOnlyFromListener ==
    Completion =>
        /\ \A i \in Ops("trackSuccess") :
              /\ i > 1
              /\ calls[i - 1].op = "onWithdrawal"
              /\ calls[i - 1].arg.error = "null"
        /\ \A i \in Ops("handleData") :
              /\ i > 2
              /\ calls[i - 1].op = "trackSuccess"
              /\ calls[i - 2].op = "onWithdrawal"
        /\ Count("onWithdrawal") = 0 => Count("handleData") = 0

\* the transaction was signed and the submit promise resolved, and no
\* withdrawal event has reached the listener: no Success so far
C11_Witness ==
    /\ Completion
    /\ pc = "done"
    /\ Count("withdrawRejected") = 0
    /\ \E i \in Ops("onTransactionHash") : calls[i].arg.error = "null"
    /\ Count("onWithdrawal") = 0
    /\ Count("handleData") = 0

(* C12: completion variant, addListener is called before withdraw, so while  *)
(* the submit call is in flight and no error has occurred the listener of    *)
(* the run is registered.                                                    *)
C12_ListenerBeforeSubmit ==
    Completion =>
        /\ \A s \in Ops("withdraw") : \E a \in Ops("addListener") : a < s
        /\ (pc = "awaitWithdraw" /\ Count("trackError") = 0)
              => "onWithdrawal" \in listener

\* the submit call is in flight, the transaction signed, no error so far
C12_Witness ==
    /\ Completion
    /\ pc = "awaitWithdraw"
    /\ emitter = "fired"
    /\ Count("trackError") = 0
    /\ "onWithdrawal" \in listener

(* C13: every started run reaches a terminal outcome once its pending        *)
(* external calls have settled: the initiation variant after submit and      *)
(* receipt wait, the completion variant after the submit promise, with no    *)
(* further external event needed.  Stated on the settled run: when the       *)
(* async function has returned, a terminal outcome has been emitted.         *)
C13_TerminalOnceSettled ==
    pc = "done" => Terminal

(* C13 as amended: once its pending external calls settle, every started run *)
(* has emitted a terminal outcome, or has rejected its promise (missing      *)
(* input), or is a completion run whose submit promise resolved and whose    *)
(* listener is still registered: its outcome needs a withdrawal event.       *)
AwaitingWithdrawalEvent ==
    /\ Completion
    /\ pc = "done"
    /\ "onWithdrawal" \in listener

C13_SettledOrAwaitingEvent ==
    (variant # "none") ~> (Terminal \/ pc = "rejected" \/ AwaitingWithdrawalEvent)

\* a completion run whose submit promise resolved and that has no outcome
C13_Witness ==
    /\ AwaitingWithdrawalEvent
    /\ ~Terminal
    /\ Count("withdraw") = 1

(* C14: initiation variant, when submit resolves with hash h and the receipt *)
(* wait resolves, the run delivers exactly one Success record, with the      *)
(* sender, recipient, symbol and amount of the request and l2hash = h, and   *)
(* calls trackSuccess exactly once, with h.                                  *)
ReceiptResolved ==
    /\ Initiation
    /\ pc = "done"
    /\ Count("waitForTransaction") = 1
    /\ Count("waitForTransactionRejected") = 0

C14_SuccessRecord ==
    ReceiptResolved =>
        /\ Count("handleData") = 1
        /\ Count("trackSuccess") = 1
        /\ Count("handleError") = 0
        /\ \A w \in Ops("waitForTransaction") :
              /\ \A i \in Ops("trackSuccess") : calls[i].arg = calls[w].arg.hash
              /\ \A i \in Ops("handleData") :
                    /\ calls[i].arg.l2hash = calls[w].arg.hash
                    /\ calls[i].arg.sender = ctx.l2Account
                    /\ calls[i].arg.recipient = ctx.l1Account
                    /\ calls[i].arg.symbol = ctx.selectedToken.symbol
                    /\ calls[i].arg.amount = ctx.amount

\* a run with both accounts present whose receipt wait resolved
C14_Witness ==
    /\ ReceiptResolved
    /\ ctx.l1Account = "0xL1"
    /\ ctx.l2Account = "0xL2"
    /\ Count("handleData") = 1

(* C15: initiation variant, trackSuccess and the Success record are produced *)
(* only after the receipt wait (waitForTransaction, status RECEIVED) for the *)
(* hash returned by the submit call has resolved, and the receipt wait       *)
(* starts only after the submit call resolved and the INITIATE_WITHDRAW      *)
(* progress event was emitted.                                               *)
C15_SuccessAfterReceipt ==
    Initiation =>
        /\ \A w \in Ops("waitForTransaction") :
              /\ l2hash \in Hashes
              /\ calls[w].arg = [hash |-> l2hash, status |-> "RECEIVED"]
              /\ \E s \in Ops("initiateWithdraw") : s < w
              /\ w > 1
              /\ calls[w - 1].op = "handleProgress"
              /\ calls[w - 1].arg.activeStep
                    = stepOf("INITIATE_WITHDRAW", TransferToL1Steps)
        /\ \A i \in Ops("trackSuccess") \cup Ops("handleData") :
              /\ pc = "done"
              /\ Count("waitForTransactionRejected") = 0
              /\ \E w \in Ops("waitForTransaction") : w < i
        /\ pc = "awaitReceipt" => Count("trackSuccess") + Count("handleData") = 0

\* Success was reported after the receipt wait
C15_Witness ==
    /\ Initiation
    /\ \E w \in Ops("waitForTransaction"), i \in Ops("trackSuccess") : w < i

(* C17: completion variant, the input transfer is never modified, and the    *)
(* Success record is a new record equal to the input transfer with only the  *)
(* field l1hash added, set to the transactionHash of the withdrawal event    *)
(* the listener received.                                                    *)
C17_SuccessRecordIsTransferPlusL1Hash ==
    (Completion /\ ~InputMissing) =>
        /\ ctx.transfer \in Transfers
        /\ \A i \in Ops("handleData") :
              /\ i > 2
              /\ calls[i - 2].op = "onWithdrawal"
              /\ DOMAIN calls[i].arg = DOMAIN ctx.transfer \cup {"l1hash"}
              /\ \A k \in DOMAIN ctx.transfer : calls[i].arg[k] = ctx.transfer[k]
              /\ calls[i].arg.l1hash = calls[i - 2].arg.event.transactionHash

\* a Success record was delivered for a withdrawal event
C17_Witness ==
    /\ Completion
    /\ \E i \in Ops("handleData") : calls[i].arg.l1hash \in Hashes

(* C18: trackInitiated is called at most once per run, after the CONFIRM_TX  *)
(* progress event and before the submit call (initiateWithdraw / withdraw),  *)
(* and exactly once in every run in which the submit call was made.          *)
SubmitCalls == Ops("initiateWithdraw") \cup Ops("withdraw")

C18_TrackInitiatedOnce ==
    /\ Count("trackInitiated") <= 1
    /\ \A i \in Ops("trackInitiated") :
          \E p \in Ops("handleProgress") :
              p < i /\ calls[p].arg.type = "waitForConfirm"
    /\ \A s \in SubmitCalls :
          /\ Count("trackInitiated") = 1
          /\ \A i \in Ops("trackInitiated") : i < s

\* the submit call was made
C18_Witness ==
    /\ SubmitCalls # {}
    /\ Count("trackInitiated") = 1

(* C19: completion variant, trackReject is never called; every failure, the  *)
(* user rejecting the signing request included, is recorded through          *)
(* trackError and reported as Failure(TRANSACTION_ERROR).                    *)
C19_NoTrackReject ==
    Completion =>
        /\ Count("trackReject") = 0
        /\ \A j \in Ops("handleError") :
              /\ calls[j].arg.type = "TRANSACTION_ERROR"
              /\ j > 1
              /\ calls[j - 1].op = "trackError"
              /\ calls[j - 1].arg = calls[j].arg.cause

\* the signing callback reported that the user rejected the request
C19_Witness ==
    /\ Completion
    /\ \E i \in SigningErrors : calls[i].arg.error = "user rejected"
    /\ Count("handleError") > 0

(* C16: amount conversion round trip: toDecimals(fromDecimals(v, d), d)      *)
(* equals v for every value v and every decimals d in 0..18.                 *)
C16_RoundTrip ==
    conv.stage = "toDecimals" => NumberEq(conv.number, NumberOf(conv.value))
====
